---- MODULE Spec2Model ----
(***************************************************************************)
(* Model of the task scheduling engine of influxdb as implemented by       *)
(* task/mock/task_control_service.go (TaskControlService): the schedule    *)
(* gate CreateNextRun, the manual run queue, the run lifecycle operations  *)
(* and the completion watermark LatestCompleted.                           *)
(*                                                                         *)
(* Representation.                                                         *)
(*  - A time.Time is an integer number of 1/SubSec seconds since the Unix  *)
(*    epoch; ZeroTime stands for the zero time.Time.  An int64 Unix time   *)
(*    is an integer number of seconds.                                     *)
(*  - A Go string is a tuple: <<>> is "", <<"rfc3339", s>> is the RFC3339  *)
(*    text of the instant s seconds after the epoch (RFC3339 carries no    *)
(*    fraction of a second), <<"dur", k>> is the text of a duration of k   *)
(*    seconds, <<"cron", e>> is the text of the cron expression e, and     *)
(*    <<"garbage">> is a text that none of the parsers accepts.            *)
(*  - A run ID is the number the ID generator handed out; 0 is the invalid *)
(*    ID.  A *Run is the run's record: the model holds every run once, in  *)
(*    the collection that owns it.                                         *)
(***************************************************************************)
EXTENDS Integers, Sequences, FiniteSets, TLC

\* ---------------------------------------------------------------- bounds
\* Resolution of time.Time: instants per second.
SubSec == 2
\* Number of run IDs the ID generator hands out.
MaxRuns == 3
\* Longest slice given to SetManualRuns.
MaxManual == 2
\* Longest run log.
MaxLog == 1
\* Number of UpdateRunState / AddRunLog calls in one behaviour.
MaxUpdates == 2

\* ------------------------------------------------------------- constants
\* time.Duration.Nanoseconds() of one second.
NanosPerSecond == 1000000000

\* ---------------------------------------------------------------- inputs
TaskIDs == {1, 2}
InvalidID == 0
\* Values of now (Unix seconds) the driver passes to CreateNextRun.
Nows == {0, 3, 4, 6, 1000000003}
\* Instants the executor passes to UpdateRunState and AddRunLog.
Whens == {3 * SubSec, 5 * SubSec}
\* Instants carried by the manual runs: a tick at the watermark of a task, and
\* an instant between two seconds.
AskedTimes == {2 * SubSec, 4 * SubSec + 1}
\* Instants asked for by CreateRun.
AdminTimes == {4 * SubSec + 1}
\* Statuses passed to UpdateRunState: backend.RunStatus.String() of the five
\* statuses, and one value outside the enumeration.
RunStarted == "started"
RunSuccess == "success"
RunFail == "failed"
RunCanceled == "canceled"
RunScheduled == "scheduled"
Statuses == {RunStarted, RunSuccess, RunFail, RunCanceled, RunScheduled}
BadStatus == "unknown"

EmptyStr == <<>>
ZeroTime == 0 - 1

VARIABLES
    tasks,             \* d.tasks: task ID -> *influxdb.Task
    runs,              \* d.runs: task ID -> run ID -> *influxdb.Run
    created,           \* d.created: <<task ID, run ID>> -> backend.QueuedRun
    manualRuns,        \* d.manualRuns
    totalRunsCreated,  \* d.totalRunsCreated
    finishedRuns,      \* d.finishedRuns: run ID -> *influxdb.Run
    nextID,            \* idgen: the next ID it hands out
    res,               \* the outcome of the last call
    gateLog,           \* history: runs made by createNextRun, in order
    updates,           \* history: number of UpdateRunState / AddRunLog calls
    panicked,          \* the process has panicked
    mu,                \* d.mu: the caller that holds it, 0 when it is unlocked
    calls              \* the call each caller is in: its position and its locals

\* The service and the histories kept of it.
svars == <<tasks, runs, created, manualRuns, totalRunsCreated, finishedRuns,
           nextID, res, gateLog, updates, panicked>>
\* The callers.
cvars == <<mu, calls>>
vars == <<tasks, runs, created, manualRuns, totalRunsCreated, finishedRuns,
          nextID, res, gateLog, updates, panicked, mu, calls>>

\* --------------------------------------------------------- time and text
\* time.Time.Unix()
Unix(t) == t \div SubSec
\* time.Unix(s, 0)
TimeUnix(s) == s * SubSec
\* time.Time.Format(time.RFC3339)
FormatRFC3339(t) == <<"rfc3339", Unix(t)>>
\* time.Parse(time.RFC3339, s): err == nil
ParseRFC3339Ok(s) == Len(s) = 2 /\ s[1] = "rfc3339"
\* time.Parse(time.RFC3339, s): the time
ParseRFC3339(s) == TimeUnix(s[2])
\* time.ParseDuration(s): err == nil
ParseDurationOk(s) == Len(s) = 2 /\ s[1] = "dur"
\* time.ParseDuration(s).Nanoseconds()
ParseDurationNanos(s) == s[2] * NanosPerSecond

\* ---------------------------------------------------------------- schedule
\* One field of a cron expression: "*", "*/N" or a number.
Star == [kind |-> "any", n |-> 1]
EveryN(n) == [kind |-> "every", n |-> n]
At(n) == [kind |-> "at", n |-> n]
\* A cron expression of seven fields: its second, minute and hour fields; the
\* day-of-month, month, day-of-week and year fields are "*" in every
\* expression used.
CronExpr(s, m, h) ==
    [sec |-> s, min |-> m, hour |-> h,
     dom |-> Star, month |-> Star, dow |-> Star, year |-> Star]

\* EffectiveCron with the interval winning over Cron when Every is positive.
EffectiveCronEveryFirst(task) ==
    IF ParseDurationOk(task.Every) /\ task.Every[2] > 0
    THEN LET d == task.Every[2] IN
         IF d < 60 THEN <<"cron", CronExpr(EveryN(d), EveryN(1), EveryN(1))>>
         ELSE IF d < 3600
              THEN <<"cron", CronExpr(At(0), EveryN(d \div 60), EveryN(1))>>
              ELSE <<"cron", CronExpr(At(0), At(0), EveryN(d \div 3600))>>
    ELSE task.Cron

\* EffectiveCron with the minutes band up to and including one hour.
EffectiveCronHourInMinutes(task) ==
    IF task.Cron # EmptyStr THEN task.Cron
    ELSE IF ~ParseDurationOk(task.Every) \/ task.Every[2] <= 0 THEN EmptyStr
    ELSE LET d == task.Every[2] IN
         IF d < 60 THEN <<"cron", CronExpr(EveryN(d), EveryN(1), EveryN(1))>>
         ELSE IF d <= 3600
              THEN <<"cron", CronExpr(At(0), EveryN(d \div 60), EveryN(1))>>
              ELSE <<"cron", CronExpr(At(0), At(0), EveryN(d \div 3600))>>

\* Task.EffectiveCron(): the Cron text when there is one, else the expression
\* of Every, on the band of its magnitude; "" when there is no schedule.
EffectiveCron(task) ==
    IF task.Cron # EmptyStr THEN task.Cron
    ELSE IF ~ParseDurationOk(task.Every) \/ task.Every[2] <= 0 THEN EmptyStr
    ELSE LET d == task.Every[2] IN
         IF d < 60 THEN <<"cron", CronExpr(EveryN(d), EveryN(1), EveryN(1))>>
         ELSE IF d < 3600
              THEN <<"cron", CronExpr(At(0), EveryN(d \div 60), EveryN(1))>>
              ELSE <<"cron", CronExpr(At(0), At(0), EveryN(d \div 3600))>>

\* cron.Parse(s): err == nil
CronParseOk(s) == Len(s) = 2 /\ s[1] = "cron"
\* cron.Parse(s): the schedule
CronParse(s) == s[2]

\* A field of a cron expression matches the value v of its unit.
FieldMatches(f, v) ==
    CASE f.kind = "any" -> TRUE
      [] f.kind = "every" -> v % f.n = 0
      [] f.kind = "at" -> v = f.n

\* The least value from lo to hi that the field f matches, hi + 1 when there
\* is none.
LeastFrom(f, lo, hi) ==
    LET v == CASE f.kind = "any" -> lo
               [] f.kind = "every" -> ((lo + f.n - 1) \div f.n) * f.n
               [] f.kind = "at" -> IF lo <= f.n THEN f.n ELSE hi + 1
    IN  IF v > hi THEN hi + 1 ELSE v

\* The first second at or after the Unix second u that the schedule matches:
\* the hour, then the minute, then the second is moved forward to its next
\* match, the smaller units starting again at 0, as SpecSchedule.Next does.
\* The fields are those of the instant in UTC.
RECURSIVE NextFrom(_, _)
NextFrom(sch, u) ==
    LET sec == u % 60
        min == (u \div 60) % 60
        hour == (u \div 3600) % 24
    IN  IF ~FieldMatches(sch.hour, hour)
        THEN NextFrom(sch, (u \div 86400) * 86400 + LeastFrom(sch.hour, hour + 1, 23) * 3600)
        ELSE IF ~FieldMatches(sch.min, min)
        THEN NextFrom(sch, (u \div 3600) * 3600 + LeastFrom(sch.min, min + 1, 59) * 60)
        ELSE IF ~FieldMatches(sch.sec, sec)
        THEN NextFrom(sch, (u \div 60) * 60 + LeastFrom(sch.sec, sec + 1, 59))
        ELSE u

\* Schedule.Next(t): the first instant strictly after t, on a whole second,
\* that the schedule matches.
SchNext(sch, t) == TimeUnix(NextFrom(sch, Unix(t) + 1))

\* ------------------------------------------------------------------ tasks
\* influxdb.Task, the fields the service reads.
Task(id, every, cron, offset, latestCompleted) ==
    [ID |-> id, Every |-> every, Cron |-> cron, Offset |-> offset,
     LatestCompleted |-> latestCompleted]

Dur(k) == <<"dur", k>>

\* The tasks given to SetTask.
TaskConfigs(id) ==
    { Task(id, Dur(2), EmptyStr, EmptyStr, EmptyStr),
      Task(id, Dur(2), EmptyStr, EmptyStr, FormatRFC3339(TimeUnix(2))),
      Task(id, Dur(3), EmptyStr, Dur(1), FormatRFC3339(TimeUnix(0))),
      Task(id, Dur(2), EmptyStr, EmptyStr, <<"garbage">>),
      Task(id, EmptyStr, EmptyStr, EmptyStr, EmptyStr) }

\* influxdb.Run
Run(id, taskID, scheduledFor) ==
    [ID |-> id, TaskID |-> taskID, ScheduledFor |-> scheduledFor,
     Status |-> "", StartedAt |-> ZeroTime, FinishedAt |-> ZeroTime,
     Log |-> <<>>]

\* backend.QueuedRun
QueuedRun(taskID, runID, now) == [TaskID |-> taskID, RunID |-> runID, Now |-> now]
NoQueuedRun == QueuedRun(InvalidID, InvalidID, 0)

\* The outcome of a call: the operation, the task it was called for, the run
\* it returned, the error it returned ("" for nil, "panic" when it did not
\* return), the path CreateNextRun took ("manual" or "gate") and the
\* RunCreation, dueAt or due time returned.
NoResult ==
    [op |-> "", task |-> InvalidID, run |-> InvalidID, err |-> "", path |-> "",
     Created |-> NoQueuedRun, dueAt |-> 0, NextDue |-> 0, HasQueue |-> FALSE]
Outcome(op, task, run, err) ==
    [NoResult EXCEPT !.op = op, !.task = task, !.run = run, !.err = err]

\* a map with one more entry
Put(m, k, v) == [x \in DOMAIN m \cup {k} |-> IF x = k THEN v ELSE m[x]]
\* a map without an entry
Del(m, k) == [x \in DOMAIN m \ {k} |-> m[x]]
EmptyMap == [x \in {} |-> 0]

\* The goroutines that call the service.
Callers == {1, 2}
\* A nil *Run.
NoRun == Run(InvalidID, InvalidID, ZeroTime)
\* A caller that is in no call.
Idle == [pc |-> "idle", task |-> InvalidID, now |-> 0, runID |-> InvalidID,
         run |-> NoRun, arr |-> <<>>, i |-> 0]

\* NewTaskControlService
Init ==
    /\ mu = InvalidID
    /\ calls = [c \in Callers |-> Idle]
    /\ tasks = EmptyMap
    /\ runs = [t \in TaskIDs \cup {InvalidID} |-> EmptyMap]
    /\ created = EmptyMap
    /\ manualRuns = <<>>
    /\ totalRunsCreated = [t \in TaskIDs |-> 0]
    /\ finishedRuns = EmptyMap
    /\ nextID = 1
    /\ res = Outcome("NewTaskControlService", InvalidID, InvalidID, "")
    /\ gateLog = <<>>
    /\ updates = 0
    /\ panicked = FALSE

\* SetTask, for a task ID that has no task yet.
SetTask(task) ==
    /\ ~panicked
    /\ task.ID \notin DOMAIN tasks
    /\ tasks' = Put(tasks, task.ID, task)
    /\ res' = Outcome("SetTask", task.ID, InvalidID, "")
    /\ UNCHANGED <<runs, created, manualRuns, totalRunsCreated, finishedRuns,
                   nextID, gateLog, updates, panicked>>

\* ------------------------------------------------------------ CreateNextRun
\* createNextRun, the watermark and the in-flight runs: the latest tick that
\* is completed or in flight, in Unix seconds.
RECURSIVE MaxScheduled(_, _, _)
MaxScheduled(rs, ids, latest) ==
    IF ids = {} THEN latest
    ELSE LET id == CHOOSE x \in ids : TRUE
             u == Unix(rs[id].ScheduledFor)
         IN  MaxScheduled(rs, ids \ {id}, IF u > latest THEN u ELSE latest)

\* createNextRunLatest with the loop over the in-flight runs left out.
createNextRunLatestNoInFlight(task, rs) ==
    IF ParseRFC3339Ok(task.LatestCompleted)
    THEN Unix(ParseRFC3339(task.LatestCompleted))
    ELSE 0

createNextRunLatest(task, rs) ==
    LET latest == IF ParseRFC3339Ok(task.LatestCompleted)
                  THEN Unix(ParseRFC3339(task.LatestCompleted))
                  ELSE 0
    IN  MaxScheduled(rs, DOMAIN rs, latest)

\* createNextRun, the offset added to the tick.
createNextRunOffset(task) ==
    IF task.Offset # EmptyStr /\ ParseDurationOk(task.Offset)
    THEN ParseDurationNanos(task.Offset)
    ELSE 0

\* createNextRun going on after a failed cron.Parse, with a run for now.
createNextRunIgnoresParse(task, now, rs, runID) ==
    LET offset == createNextRunOffset(task)
        sch == IF CronParseOk(EffectiveCron(task)) THEN CronParse(EffectiveCron(task))
               ELSE CronExpr(Star, Star, Star)
        nextScheduled == SchNext(sch, TimeUnix(createNextRunLatest(task, rs)))
        dueAt == Unix(nextScheduled) + offset
    IN  IF dueAt > now
        THEN [err |-> "RunNotDueYet", dueAt |-> dueAt,
              run |-> Run(InvalidID, InvalidID, ZeroTime),
              Created |-> NoQueuedRun, NextDue |-> 0, HasQueue |-> FALSE]
        ELSE [err |-> "", dueAt |-> dueAt,
              run |-> Run(runID, InvalidID, nextScheduled),
              Created |-> QueuedRun(InvalidID, runID, Unix(nextScheduled)),
              NextDue |-> Unix(SchNext(sch, nextScheduled)) + offset,
              HasQueue |-> FALSE]

\* createNextRun(task, now), given the in-flight runs rs of the task and the
\* ID the generator hands out next: the error, the dueAt of RunNotDueYet, the
\* run made and the RunCreation returned.
createNextRun(task, now, rs, runID) ==
    IF ~CronParseOk(EffectiveCron(task))
    THEN [err |-> "InvalidSchedule", dueAt |-> 0, run |-> Run(InvalidID, InvalidID, ZeroTime),
          Created |-> NoQueuedRun, NextDue |-> 0, HasQueue |-> FALSE]
    ELSE LET sch == CronParse(EffectiveCron(task))
             latest == createNextRunLatest(task, rs)
             nextScheduled == SchNext(sch, TimeUnix(latest))
             nextScheduledUnix == Unix(nextScheduled)
             offset == createNextRunOffset(task)
             dueAt == nextScheduledUnix + offset
         IN  IF dueAt > now
             THEN [err |-> "RunNotDueYet", dueAt |-> dueAt,
                   run |-> Run(InvalidID, InvalidID, ZeroTime),
                   Created |-> NoQueuedRun, NextDue |-> 0, HasQueue |-> FALSE]
             ELSE [err |-> "", dueAt |-> dueAt,
                   run |-> Run(runID, InvalidID, nextScheduled),
                   Created |-> QueuedRun(InvalidID, runID, nextScheduledUnix),
                   NextDue |-> Unix(SchNext(sch, nextScheduled)) + offset,
                   HasQueue |-> FALSE]

\* nextDueRun with the loop over the in-flight runs left out.
nextDueRunNoInFlight(task, rs) ==
    IF ~CronParseOk(EffectiveCron(task))
    THEN [err |-> "InvalidSchedule", next |-> 0]
    ELSE LET sch == CronParse(EffectiveCron(task))
             latest == IF ParseRFC3339Ok(task.LatestCompleted)
                       THEN Unix(ParseRFC3339(task.LatestCompleted))
                       ELSE 0
         IN  [err |-> "", next |-> Unix(SchNext(sch, TimeUnix(latest)))
                                     + createNextRunOffset(task)]

\* nextDueRun(taskID) of a known task, given the in-flight runs rs of the task.
nextDueRun(task, rs) ==
    IF ~CronParseOk(EffectiveCron(task))
    THEN [err |-> "InvalidSchedule", next |-> 0]
    ELSE LET sch == CronParse(EffectiveCron(task))
             latest0 == IF ParseRFC3339Ok(task.LatestCompleted)
                        THEN Unix(ParseRFC3339(task.LatestCompleted))
                        ELSE 0
             latest == MaxScheduled(rs, DOMAIN rs, latest0)
             nextScheduledUnix == Unix(SchNext(sch, TimeUnix(latest)))
             offset == IF task.Offset # EmptyStr /\ ParseDurationOk(task.Offset)
                       THEN ParseDurationNanos(task.Offset)
                       ELSE 0
         IN  [err |-> "", next |-> nextScheduledUnix + offset]

\* CreateNextRun, an invalid task ID: the error is returned.
CreateNextRunInvalid(taskID, now) ==
    /\ res' = Outcome("CreateNextRun", taskID, InvalidID, "invalid task id")
    /\ UNCHANGED <<tasks, runs, created, manualRuns, totalRunsCreated,
                   finishedRuns, nextID, gateLog, updates, panicked>>

\* CreateNextRun, a task that SetTask has not set: panic.
CreateNextRunUnknown(taskID, now) ==
    /\ panicked' = TRUE
    /\ res' = Outcome("CreateNextRun", taskID, InvalidID, "panic")
    /\ UNCHANGED <<tasks, runs, created, manualRuns, totalRunsCreated,
                   finishedRuns, nextID, gateLog, updates>>

\* CreateNextRunManual serving the last run of the queue instead of the head.
CreateNextRunManualLast(taskID, now) ==
    LET task == tasks[taskID]
        run == manualRuns[Len(manualRuns)]
        rs == Put(runs[task.ID], run.ID, run)
        next == nextDueRun(task, rs).next
        rest == SubSeq(manualRuns, 1, Len(manualRuns) - 1)
        rc == QueuedRun(task.ID, run.ID, Unix(run.ScheduledFor))
    IN  /\ manualRuns' = rest
        /\ runs' = [runs EXCEPT ![task.ID] = rs]
        /\ created' = Put(created, <<taskID, run.ID>>, rc)
        /\ totalRunsCreated' = [totalRunsCreated EXCEPT ![taskID] = @ + 1]
        /\ res' = [Outcome("CreateNextRun", taskID, InvalidID, "")
                     EXCEPT !.path = "manual", !.Created = rc,
                            !.NextDue = next, !.HasQueue = (rest # <<>>)]
        /\ UNCHANGED <<tasks, finishedRuns, nextID, gateLog, updates, panicked>>

\* CreateNextRun, a manual run is queued: the head of the queue is served.
CreateNextRunManual(taskID, now) ==
    LET task == tasks[taskID]
        run == manualRuns[1]
        rs == Put(runs[task.ID], run.ID, run)
        next == nextDueRun(task, rs).next
        rest == Tail(manualRuns)
        rc == QueuedRun(task.ID, run.ID, Unix(run.ScheduledFor))
    IN  /\ manualRuns' = rest
        /\ runs' = [runs EXCEPT ![task.ID] = rs]
        /\ created' = Put(created, <<taskID, run.ID>>, rc)
        /\ totalRunsCreated' = [totalRunsCreated EXCEPT ![taskID] = @ + 1]
        /\ res' = [Outcome("CreateNextRun", taskID, InvalidID, "")
                     EXCEPT !.path = "manual", !.Created = rc,
                            !.NextDue = next, !.HasQueue = (rest # <<>>)]
        /\ UNCHANGED <<tasks, finishedRuns, nextID, gateLog, updates, panicked>>

\* The schedule gate counting a created run also when createNextRun fails.
CreateNextRunGateCountsRefusal(taskID, now) ==
    LET task == tasks[taskID]
        rc == createNextRun(task, now, runs[task.ID], nextID)
        c == [rc.Created EXCEPT !.TaskID = taskID]
    IN  /\ totalRunsCreated' = [totalRunsCreated EXCEPT ![taskID] = @ + 1]
        /\ IF rc.err # ""
           THEN /\ res' = [Outcome("CreateNextRun", taskID, InvalidID, rc.err)
                             EXCEPT !.path = "gate", !.dueAt = rc.dueAt]
                /\ UNCHANGED <<tasks, runs, created, manualRuns,
                               finishedRuns, nextID, gateLog, updates, panicked>>
           ELSE /\ nextID <= MaxRuns
                /\ nextID' = nextID + 1
                /\ runs' = [runs EXCEPT ![task.ID] = Put(@, rc.run.ID, rc.run)]
                /\ created' = Put(created, <<taskID, c.RunID>>, c)
                /\ gateLog' = Append(gateLog, [task |-> taskID, run |-> rc.run.ID,
                                               ScheduledFor |-> rc.run.ScheduledFor])
                /\ res' = [Outcome("CreateNextRun", taskID, InvalidID, "")
                             EXCEPT !.path = "gate", !.Created = c,
                                    !.dueAt = rc.dueAt, !.NextDue = rc.NextDue,
                                    !.HasQueue = rc.HasQueue]
                /\ UNCHANGED <<tasks, manualRuns, finishedRuns, updates, panicked>>

\* CreateNextRun, no manual run is queued: the schedule gate.
CreateNextRunGate(taskID, now) ==
    LET task == tasks[taskID]
        rc == createNextRun(task, now, runs[task.ID], nextID)
        c == [rc.Created EXCEPT !.TaskID = taskID]
    IN  IF rc.err # ""
        THEN /\ res' = [Outcome("CreateNextRun", taskID, InvalidID, rc.err)
                          EXCEPT !.path = "gate", !.dueAt = rc.dueAt]
             /\ UNCHANGED <<tasks, runs, created, manualRuns, totalRunsCreated,
                            finishedRuns, nextID, gateLog, updates, panicked>>
        ELSE /\ nextID <= MaxRuns
             /\ nextID' = nextID + 1
             /\ runs' = [runs EXCEPT ![task.ID] = Put(@, rc.run.ID, rc.run)]
             /\ created' = Put(created, <<taskID, c.RunID>>, c)
             /\ totalRunsCreated' = [totalRunsCreated EXCEPT ![taskID] = @ + 1]
             /\ gateLog' = Append(gateLog, [task |-> taskID, run |-> rc.run.ID,
                                            ScheduledFor |-> rc.run.ScheduledFor])
             /\ res' = [Outcome("CreateNextRun", taskID, InvalidID, "")
                          EXCEPT !.path = "gate", !.Created = c,
                                 !.dueAt = rc.dueAt, !.NextDue = rc.NextDue,
                                 !.HasQueue = rc.HasQueue]
             /\ UNCHANGED <<tasks, manualRuns, finishedRuns, updates, panicked>>

\* CreateNextRun taking the manual path only when more than one run is queued.
CreateNextRunManualOffByOne(taskID, now) ==
    /\ ~panicked
    /\ IF taskID = InvalidID THEN CreateNextRunInvalid(taskID, now)
       ELSE IF taskID \notin DOMAIN tasks THEN CreateNextRunUnknown(taskID, now)
       ELSE IF Len(manualRuns) > 1 THEN CreateNextRunManual(taskID, now)
       ELSE CreateNextRunGate(taskID, now)

CreateNextRun(taskID, now) ==
    /\ ~panicked
    /\ IF taskID = InvalidID THEN CreateNextRunInvalid(taskID, now)
       ELSE IF taskID \notin DOMAIN tasks THEN CreateNextRunUnknown(taskID, now)
       ELSE IF Len(manualRuns) # 0 THEN CreateNextRunManual(taskID, now)
       ELSE CreateNextRunGate(taskID, now)

\* ---------------------------------------------------------------- CreateRun
\* CreateRun moving the watermark of the task to the instant asked for.
CreateRunMovesWatermark(taskID, scheduledFor) ==
    /\ ~panicked
    /\ nextID <= MaxRuns
    /\ nextID' = nextID + 1
    /\ runs' = [runs EXCEPT ![taskID] = Put(@, nextID, Run(nextID, InvalidID, scheduledFor))]
    /\ tasks' = [t \in DOMAIN tasks |->
                   IF t = taskID
                   THEN [tasks[t] EXCEPT !.LatestCompleted = FormatRFC3339(scheduledFor)]
                   ELSE tasks[t]]
    /\ res' = Outcome("CreateRun", taskID, nextID, "")
    /\ UNCHANGED <<created, manualRuns, totalRunsCreated, finishedRuns,
                   gateLog, updates, panicked>>

CreateRun(taskID, scheduledFor) ==
    /\ ~panicked
    /\ nextID <= MaxRuns
    /\ nextID' = nextID + 1
    /\ runs' = [runs EXCEPT ![taskID] = Put(@, nextID, Run(nextID, InvalidID, scheduledFor))]
    /\ res' = Outcome("CreateRun", taskID, nextID, "")
    /\ UNCHANGED <<tasks, created, manualRuns, totalRunsCreated, finishedRuns,
                   gateLog, updates, panicked>>

\* ------------------------------------------------------------ manual queue
\* The slices of runs a caller gives to SetManualRuns: up to MaxManual runs
\* with the IDs the generator hands out next, each for one of the tasks ids
\* and one of the instants times.
ManualSlices(ids, times) ==
    {<<>>} \cup
    UNION { [1..n -> {[task |-> t, at |-> a] : t \in ids, a \in times}]
            : n \in 1..MaxManual }

\* SetManualRuns(runs): the queue becomes the slice given.
SetManualRuns(slice) ==
    /\ ~panicked
    /\ nextID + Len(slice) - 1 <= MaxRuns
    /\ nextID' = nextID + Len(slice)
    /\ manualRuns' = [i \in 1..Len(slice) |->
                        Run(nextID + i - 1, slice[i].task, slice[i].at)]
    /\ res' = Outcome("SetManualRuns", InvalidID, InvalidID, "")
    /\ UNCHANGED <<tasks, runs, created, totalRunsCreated, finishedRuns,
                   gateLog, updates, panicked>>

\* The loop of StartManualRun over the queue as it was at the start (n
\* elements of the array arr), from index i: q is the queue now, a prefix of
\* arr; a match is cut out of q in place, which moves the rest of arr forward.
\* The result has the queue, the run found and the array as the loop left it.
RECURSIVE StartManualRunLoop(_, _, _, _, _)
StartManualRunLoop(arr, q, i, run, runID) ==
    IF i > Len(arr) THEN [q |-> q, run |-> run, panic |-> FALSE, arr |-> arr]
    ELSE IF arr[i].ID # runID THEN StartManualRunLoop(arr, q, i + 1, run, runID)
    ELSE IF i > Len(q) THEN [q |-> q, run |-> arr[i], panic |-> TRUE, arr |-> arr]
    ELSE LET cut == [k \in 1..(Len(q) - 1) |-> IF k < i THEN q[k] ELSE q[k + 1]]
             moved == [k \in 1..Len(arr) |-> IF k <= Len(cut) THEN cut[k] ELSE arr[k]]
         IN  StartManualRunLoop(moved, cut, i + 1, arr[i], runID)

\* StartManualRun that returns the run and leaves it in the queue.
StartManualRunKeepsRun(taskID, runID) ==
    LET hit == \E i \in 1..Len(manualRuns) : manualRuns[i].ID = runID
    IN  /\ ~panicked
        /\ res' = IF hit THEN Outcome("StartManualRun", taskID, runID, "")
                  ELSE Outcome("StartManualRun", taskID, InvalidID, "ErrRunNotFound")
        /\ UNCHANGED <<tasks, runs, created, manualRuns, totalRunsCreated,
                       finishedRuns, nextID, gateLog, updates, panicked>>

\* StartManualRun that cuts the head of the queue when a run matches.
StartManualRunCutsHead(taskID, runID) ==
    LET hit == \E i \in 1..Len(manualRuns) : manualRuns[i].ID = runID
    IN  /\ ~panicked
        /\ manualRuns' = IF hit THEN Tail(manualRuns) ELSE manualRuns
        /\ res' = IF hit THEN Outcome("StartManualRun", taskID, runID, "")
                  ELSE Outcome("StartManualRun", taskID, InvalidID, "ErrRunNotFound")
        /\ UNCHANGED <<tasks, runs, created, totalRunsCreated, finishedRuns,
                       nextID, gateLog, updates, panicked>>

StartManualRun(taskID, runID) ==
    LET out == StartManualRunLoop(manualRuns, manualRuns, 1,
                                  Run(InvalidID, InvalidID, ZeroTime), runID)
    IN  /\ ~panicked
        /\ manualRuns' = out.q
        /\ panicked' = out.panic
        /\ res' = IF out.panic THEN Outcome("StartManualRun", taskID, InvalidID, "panic")
                  ELSE IF out.run.ID = InvalidID
                       THEN Outcome("StartManualRun", taskID, InvalidID, "ErrRunNotFound")
                       ELSE Outcome("StartManualRun", taskID, out.run.ID, "")
        /\ UNCHANGED <<tasks, runs, created, totalRunsCreated, finishedRuns,
                       nextID, gateLog, updates>>

\* ---------------------------------------------------------- CurrentlyRunning
\* CurrentlyRunning(taskID): the runs returned, in the order of a map's range,
\* which is any order.
CurrentlyRunning(taskID) == {runs[taskID][id] : id \in DOMAIN runs[taskID]}

\* --------------------------------------------------------------- CreatedFor
\* CreatedFor(taskID): the handles in d.created whose TaskID is taskID.
CreatedFor(taskID) ==
    {created[k] : k \in {x \in DOMAIN created : created[x].TaskID = taskID}}

\* ---------------------------------------------------------------- FinishRun
\* FinishRun, the watermark of task t after run r is finished.
\* FinishRunLatestCompleted without the comparison with the watermark.
FinishRunLatestCompletedAlways(t, r) ==
    IF t.LatestCompleted # EmptyStr THEN FormatRFC3339(r.ScheduledFor)
    ELSE t.LatestCompleted

FinishRunLatestCompleted(t, r) ==
    IF t.LatestCompleted # EmptyStr
       /\ ParseRFC3339Ok(t.LatestCompleted)
       /\ r.ScheduledFor > ParseRFC3339(t.LatestCompleted)
    THEN FormatRFC3339(r.ScheduledFor)
    ELSE t.LatestCompleted

FinishRun(taskID, runID) ==
    /\ ~panicked
    /\ IF runID \notin DOMAIN runs[taskID]
       THEN \* r is nil: r.ScheduledFor panics
            /\ panicked' = TRUE
            /\ res' = Outcome("FinishRun", taskID, InvalidID, "panic")
            /\ UNCHANGED <<tasks, runs, created, manualRuns, totalRunsCreated,
                           finishedRuns, nextID, gateLog, updates>>
       ELSE LET r == runs[taskID][runID] IN
            /\ runs' = [runs EXCEPT ![taskID] = Del(@, runID)]
            /\ IF taskID \notin DOMAIN tasks
               THEN \* t is nil: t.LatestCompleted panics
                    /\ panicked' = TRUE
                    /\ res' = Outcome("FinishRun", taskID, InvalidID, "panic")
                    /\ UNCHANGED <<tasks, created, finishedRuns>>
               ELSE IF tasks[taskID].LatestCompleted # EmptyStr
                       /\ ~ParseRFC3339Ok(tasks[taskID].LatestCompleted)
               THEN /\ res' = Outcome("FinishRun", taskID, InvalidID, "parse")
                    /\ UNCHANGED <<tasks, created, finishedRuns, panicked>>
               ELSE /\ tasks' = [tasks EXCEPT ![taskID].LatestCompleted =
                                    FinishRunLatestCompleted(tasks[taskID], r)]
                    /\ finishedRuns' = Put(finishedRuns, runID, r)
                    /\ created' = Del(created, <<taskID, runID>>)
                    /\ res' = Outcome("FinishRun", taskID, runID, "")
                    /\ UNCHANGED panicked
            /\ UNCHANGED <<manualRuns, totalRunsCreated, nextID, gateLog, updates>>

\* --------------------------------------------------------------- NextDueRun
NextDueRun(taskID) ==
    /\ ~panicked
    /\ IF taskID \notin DOMAIN tasks
       THEN \* task is nil: task.EffectiveCron() panics
            /\ panicked' = TRUE
            /\ res' = Outcome("NextDueRun", taskID, InvalidID, "panic")
       ELSE LET out == nextDueRun(tasks[taskID], runs[taskID]) IN
            /\ res' = [Outcome("NextDueRun", taskID, InvalidID, out.err)
                         EXCEPT !.NextDue = out.next]
            /\ UNCHANGED panicked
    /\ UNCHANGED <<tasks, runs, created, manualRuns, totalRunsCreated,
                   finishedRuns, nextID, gateLog, updates>>

\* ----------------------------------------------------------- UpdateRunState
\* UpdateRunState, the run after the transition.
\* UpdateRun stamping FinishedAt on every transition.
UpdateRunStampsFinished(run, when, state) ==
    [run EXCEPT !.StartedAt = IF state = RunStarted THEN when ELSE @,
                !.FinishedAt = when,
                !.Status = state]

UpdateRun(run, when, state) ==
    [run EXCEPT !.StartedAt = IF state = RunStarted THEN when ELSE @,
                !.FinishedAt = IF state \in {RunSuccess, RunFail, RunCanceled}
                               THEN when ELSE @,
                !.Status = state]

UpdateRunState(taskID, runID, when, state) ==
    /\ ~panicked
    /\ updates < MaxUpdates
    /\ updates' = updates + 1
    /\ IF runID \notin DOMAIN runs[taskID] \/ state \notin Statuses
       THEN /\ panicked' = TRUE
            /\ res' = Outcome("UpdateRunState", taskID, InvalidID, "panic")
            /\ UNCHANGED runs
       ELSE /\ runs' = [runs EXCEPT ![taskID][runID] = UpdateRun(@, when, state)]
            /\ res' = Outcome("UpdateRunState", taskID, InvalidID, "")
            /\ UNCHANGED panicked
    /\ UNCHANGED <<tasks, created, manualRuns, totalRunsCreated, finishedRuns,
                   nextID, gateLog>>

\* ---------------------------------------------------------------- AddRunLog
\* time.Time.Format(time.RFC3339Nano): the text keeps the fraction of a second.
FormatRFC3339Nano(t) == <<"rfc3339nano", t>>

AddRunLog(taskID, runID, when, log) ==
    /\ ~panicked
    /\ updates < MaxUpdates
    /\ updates' = updates + 1
    /\ IF runID \notin DOMAIN runs[taskID]
       THEN /\ panicked' = TRUE
            /\ res' = Outcome("AddRunLog", taskID, InvalidID, "panic")
            /\ UNCHANGED runs
       ELSE /\ Len(runs[taskID][runID].Log) < MaxLog
            /\ runs' = [runs EXCEPT ![taskID][runID].Log =
                          Append(@, [RunID |-> runID, Time |-> FormatRFC3339Nano(when),
                                     Message |-> log])]
            /\ res' = Outcome("AddRunLog", taskID, InvalidID, "")
            /\ UNCHANGED panicked
    /\ UNCHANGED <<tasks, created, manualRuns, totalRunsCreated, finishedRuns,
                   nextID, gateLog>>

\* -------------------------------------------------------------- concurrency
\* The operations as the steps of concurrent callers.  An operation that
\* holds d.mu is cut where it reads or writes d.manualRuns, the one field
\* that is also written without the mutex (by SetManualRuns), and FinishRun is
\* cut between its delete and its update of the watermark.

\* defer d.mu.Unlock(), and the return of the call
Unlock(c) == mu' = InvalidID /\ calls' = [calls EXCEPT ![c] = Idle]
\* The call goes on to position pc.
Goto(c, pc) == calls' = [calls EXCEPT ![c].pc = pc]

\* A panic inside an operation op that holds d.mu: the deferred Unlock runs.
PanicIn(c, op) ==
    /\ panicked' = TRUE
    /\ res' = Outcome(op, calls[c].task, InvalidID, "panic")
    /\ Unlock(c)
    /\ UNCHANGED <<tasks, runs, created, manualRuns, totalRunsCreated,
                   finishedRuns, nextID, gateLog, updates>>

\* SetTask: the whole body holds d.mu and touches d.tasks only.
LockedSetTask(task) == mu = InvalidID /\ SetTask(task) /\ UNCHANGED cvars

\* CreateNextRun: d.mu.Lock()
CreateNextRunLock(c, taskID, now) ==
    /\ ~panicked /\ calls[c].pc = "idle"
    /\ mu = InvalidID /\ mu' = c
    /\ calls' = [calls EXCEPT ![c] = [Idle EXCEPT !.pc = "check", !.task = taskID,
                                                  !.now = now]]
    /\ UNCHANGED svars

\* CreateNextRun: the task ID, the task, len(d.manualRuns) != 0 and, with an
\* empty queue, the schedule gate.
CreateNextRunCheck(c) ==
    LET taskID == calls[c].task
        now == calls[c].now
    IN  /\ ~panicked /\ calls[c].pc = "check"
        /\ IF taskID = InvalidID THEN CreateNextRunInvalid(taskID, now) /\ Unlock(c)
           ELSE IF taskID \notin DOMAIN tasks
                THEN CreateNextRunUnknown(taskID, now) /\ Unlock(c)
           ELSE IF Len(manualRuns) # 0
                THEN Goto(c, "head") /\ UNCHANGED <<svars, mu>>
           ELSE CreateNextRunGate(taskID, now) /\ Unlock(c)

\* CreateNextRun: run := d.manualRuns[0]
CreateNextRunHead(c) ==
    /\ ~panicked /\ calls[c].pc = "head"
    /\ IF manualRuns = <<>>
       THEN PanicIn(c, "CreateNextRun")
       ELSE /\ calls' = [calls EXCEPT ![c].pc = "pop", ![c].run = manualRuns[1]]
            /\ UNCHANGED <<svars, mu>>

\* CreateNextRun: d.manualRuns = d.manualRuns[1:]
CreateNextRunPop(c) ==
    /\ ~panicked /\ calls[c].pc = "pop"
    /\ IF manualRuns = <<>>
       THEN PanicIn(c, "CreateNextRun")
       ELSE /\ manualRuns' = Tail(manualRuns)
            /\ Goto(c, "serve")
            /\ UNCHANGED <<tasks, runs, created, totalRunsCreated, finishedRuns,
                           nextID, res, gateLog, updates, panicked, mu>>

\* CreateNextRun: the run read from the queue is put among the runs in flight
\* and returned.  A run read past the end of a torn slice is a nil or a wild
\* pointer: the call panics, or goes on with what it points to (the zero Run).
CreateNextRunServe(c) ==
    LET taskID == calls[c].task
        task == tasks[taskID]
        run == calls[c].run
        rs == Put(runs[task.ID], run.ID, run)
        next == nextDueRun(task, rs).next
        rc == QueuedRun(task.ID, run.ID, Unix(run.ScheduledFor))
    IN  /\ ~panicked /\ calls[c].pc = "serve"
        /\ \/ /\ run = NoRun
              /\ PanicIn(c, "CreateNextRun")
           \/ /\ runs' = [runs EXCEPT ![task.ID] = rs]
              /\ created' = Put(created, <<taskID, run.ID>>, rc)
              /\ totalRunsCreated' = [totalRunsCreated EXCEPT ![taskID] = @ + 1]
              /\ res' = [Outcome("CreateNextRun", taskID, InvalidID, "")
                           EXCEPT !.path = "manual", !.Created = rc,
                                  !.NextDue = next, !.HasQueue = (manualRuns # <<>>)]
              /\ Unlock(c)
              /\ UNCHANGED <<tasks, manualRuns, finishedRuns, nextID, gateLog,
                             updates, panicked>>

\* FinishRun: d.mu.Lock(), r := d.runs[tid][rid], delete(d.runs[tid], rid),
\* t := d.tasks[tid], schedFor
FinishRunDelete(c, taskID, runID) ==
    /\ ~panicked /\ calls[c].pc = "idle"
    /\ mu = InvalidID
    /\ IF runID \notin DOMAIN runs[taskID]
       THEN /\ panicked' = TRUE
            /\ res' = Outcome("FinishRun", taskID, InvalidID, "panic")
            /\ UNCHANGED <<tasks, runs, created, manualRuns, totalRunsCreated,
                           finishedRuns, nextID, gateLog, updates, cvars>>
       ELSE /\ runs' = [runs EXCEPT ![taskID] = Del(@, runID)]
            /\ IF taskID \notin DOMAIN tasks
               THEN /\ panicked' = TRUE
                    /\ res' = Outcome("FinishRun", taskID, InvalidID, "panic")
                    /\ UNCHANGED cvars
               ELSE /\ mu' = c
                    /\ calls' = [calls EXCEPT ![c] =
                                   [Idle EXCEPT !.pc = "finish", !.task = taskID,
                                                !.runID = runID,
                                                !.run = runs[taskID][runID]]]
                    /\ UNCHANGED <<res, panicked>>
            /\ UNCHANGED <<tasks, created, manualRuns, totalRunsCreated,
                           finishedRuns, nextID, gateLog, updates>>

\* FinishRun: the watermark, d.finishedRuns, d.created, and the return.
FinishRunComplete(c) ==
    LET taskID == calls[c].task
        runID == calls[c].runID
        r == calls[c].run
    IN  /\ ~panicked /\ calls[c].pc = "finish"
        /\ IF tasks[taskID].LatestCompleted # EmptyStr
              /\ ~ParseRFC3339Ok(tasks[taskID].LatestCompleted)
           THEN /\ res' = Outcome("FinishRun", taskID, InvalidID, "parse")
                /\ UNCHANGED <<tasks, created, finishedRuns>>
           ELSE /\ tasks' = [tasks EXCEPT ![taskID].LatestCompleted =
                                FinishRunLatestCompleted(tasks[taskID], r)]
                /\ finishedRuns' = Put(finishedRuns, runID, r)
                /\ created' = Del(created, <<taskID, runID>>)
                /\ res' = Outcome("FinishRun", taskID, runID, "")
        /\ Unlock(c)
        /\ UNCHANGED <<runs, manualRuns, totalRunsCreated, nextID, gateLog,
                       updates, panicked>>

\* SetManualRuns takes no mutex.  Its store of the slice header in one piece:
SetManualRunsStore(c, slice) ==
    calls[c].pc = "idle" /\ SetManualRuns(slice) /\ UNCHANGED cvars

\* The slice headers a reader can see while the header of old is replaced by
\* that of new word by word: the array of new with the length of old, or the
\* array of old with the length of new.  An element past the end of an array
\* is a nil or wild pointer.
TornSlices(old, new) ==
    { [i \in 1..Len(old) |-> IF i <= Len(new) THEN new[i] ELSE NoRun],
      [i \in 1..Len(new) |-> IF i <= Len(old) THEN old[i] ELSE NoRun] }

\* SetManualRuns: the first words of the header are stored.
SetManualRunsTear(c, slice) ==
    LET new == [i \in 1..Len(slice) |->
                  Run(nextID + i - 1, slice[i].task, slice[i].at)]
    IN  /\ ~panicked /\ calls[c].pc = "idle"
        /\ nextID + Len(slice) - 1 <= MaxRuns
        /\ nextID' = nextID + Len(slice)
        /\ \E torn \in TornSlices(manualRuns, new) \ {manualRuns, new} :
              manualRuns' = torn
        /\ calls' = [calls EXCEPT ![c] = [Idle EXCEPT !.pc = "store", !.arr = new]]
        /\ UNCHANGED <<tasks, runs, created, totalRunsCreated, finishedRuns,
                       res, gateLog, updates, panicked, mu>>

\* SetManualRuns: the last words of the header are stored.
SetManualRunsRest(c) ==
    /\ ~panicked /\ calls[c].pc = "store"
    /\ manualRuns' = calls[c].arr
    /\ res' = Outcome("SetManualRuns", InvalidID, InvalidID, "")
    /\ calls' = [calls EXCEPT ![c] = Idle]
    /\ UNCHANGED <<tasks, runs, created, totalRunsCreated, finishedRuns,
                   nextID, gateLog, updates, panicked, mu>>

\* StartManualRun: d.mu.Lock() and the range over the slice as it is when the
\* loop begins, up to the first run with the ID asked for.  The ID of a nil
\* or wild pointer is read with a panic or is not the ID asked for.
StartManualRunFind(c, taskID, runID) ==
    LET arr == manualRuns
        found == {i \in 1..Len(arr) : arr[i].ID = runID}
        first == CHOOSE i \in found : \A j \in found : i <= j
        wild == \E i \in 1..Len(arr) :
                   arr[i] = NoRun /\ \A j \in found : i < j
    IN  /\ ~panicked /\ calls[c].pc = "idle"
        /\ mu = InvalidID
        /\ \/ /\ wild
              /\ panicked' = TRUE
              /\ res' = Outcome("StartManualRun", taskID, InvalidID, "panic")
              /\ UNCHANGED cvars
           \/ /\ found = {}
              /\ res' = Outcome("StartManualRun", taskID, InvalidID, "ErrRunNotFound")
              /\ UNCHANGED <<panicked, cvars>>
           \/ /\ found # {}
              /\ mu' = c
              /\ calls' = [calls EXCEPT ![c] =
                             [Idle EXCEPT !.pc = "cut", !.task = taskID, !.runID = runID,
                                          !.run = arr[first], !.i = first]]
              /\ UNCHANGED <<res, panicked>>
        /\ UNCHANGED <<tasks, runs, created, manualRuns, totalRunsCreated,
                       finishedRuns, nextID, gateLog, updates>>

\* StartManualRun: append(t.manualRuns[:i], t.manualRuns[i+1:]...), of the
\* queue as it is now.
StartManualRunCut(c) ==
    LET q == manualRuns
        i == calls[c].i
    IN  /\ ~panicked /\ calls[c].pc = "cut"
        /\ IF i > Len(q)
           THEN PanicIn(c, "StartManualRun")
           ELSE /\ calls' = [calls EXCEPT ![c].pc = "assign",
                                          ![c].arr = [k \in 1..(Len(q) - 1) |->
                                                        IF k < i THEN q[k] ELSE q[k + 1]]]
                /\ UNCHANGED <<svars, mu>>

\* StartManualRun: t.manualRuns = the queue cut, and the return of the run.
StartManualRunAssign(c) ==
    /\ ~panicked /\ calls[c].pc = "assign"
    /\ manualRuns' = calls[c].arr
    /\ res' = Outcome("StartManualRun", calls[c].task, calls[c].run.ID, "")
    /\ Unlock(c)
    /\ UNCHANGED <<tasks, runs, created, totalRunsCreated, finishedRuns,
                   nextID, gateLog, updates, panicked>>

\* ------------------------------------------------- the slices callers hold
\* ManualRuns(taskID): the runs returned, the queue of the service for any
\* task; an empty slice when the queue is nil.
ManualRuns(taskID) == manualRuns

\* ManualRuns returns t.manualRuns itself: the slice the caller holds and the
\* queue are windows on one array.  calls[c].arr is what caller c sees in the
\* slice it holds and calls[c].i is how many elements of the array lie
\* between the start of that slice and the start of the queue; a slice of an
\* array the queue has left has i = Len(arr).
ManualRunsReturn(c, taskID) ==
    /\ ~panicked
    /\ calls' = [calls EXCEPT ![c] = [Idle EXCEPT !.arr = ManualRuns(taskID), !.i = 0]]
    /\ res' = Outcome("ManualRuns", taskID, InvalidID, "")
    /\ UNCHANGED <<tasks, runs, created, manualRuns, totalRunsCreated,
                   finishedRuns, nextID, gateLog, updates, panicked, mu>>

\* What a held slice shows once the elements of the queue's array have
\* become arr.
Shows(held, arr) ==
    [held EXCEPT !.arr = [p \in 1..Len(held.arr) |->
                            IF p - held.i \in 1..Len(arr)
                            THEN arr[p - held.i] ELSE held.arr[p]]]

\* CreateNextRun: d.manualRuns[1:] moves the start of the queue one element
\* on in its array.
CreateNextRunReslice(taskID, now) ==
    /\ CreateNextRun(taskID, now)
    /\ calls' = [c \in Callers |->
                   IF Len(manualRuns') < Len(manualRuns) /\ calls[c].i < Len(calls[c].arr)
                   THEN [calls[c] EXCEPT !.i = @ + 1] ELSE calls[c]]
    /\ UNCHANGED mu

\* SetManualRuns: the queue is a window on the array of the slice given.
SetManualRunsReplace(slice) ==
    /\ SetManualRuns(slice)
    /\ calls' = [c \in Callers |-> [calls[c] EXCEPT !.i = Len(calls[c].arr)]]
    /\ UNCHANGED mu

\* StartManualRun: append(t.manualRuns[:i], t.manualRuns[i+1:]...) writes to
\* the array of the queue.
StartManualRunInPlace(taskID, runID) ==
    /\ StartManualRun(taskID, runID)
    /\ calls' = [c \in Callers |->
                   Shows(calls[c], StartManualRunLoop(manualRuns, manualRuns, 1,
                                                      NoRun, runID).arr)]
    /\ UNCHANGED mu

\* ------------------------------------------------------------ specification
RunIDs == 1..MaxRuns

\* The scheduler of one task: every operation but the two that only record
\* what the executor reports.  There is one caller: every call returns before
\* the next begins.
TheTask == 1
Next ==
    \/ \E task \in TaskConfigs(TheTask) : SetTask(task) /\ UNCHANGED cvars
    \/ \E taskID \in {TheTask, InvalidID}, now \in Nows : CreateNextRun(taskID, now) /\ UNCHANGED cvars
    \/ \E at \in AdminTimes : CreateRun(TheTask, at) /\ UNCHANGED cvars
    \/ \E slice \in ManualSlices({TheTask}, AskedTimes) : SetManualRuns(slice) /\ UNCHANGED cvars
    \/ \E runID \in RunIDs : StartManualRun(TheTask, runID) /\ UNCHANGED cvars
    \/ \E runID \in RunIDs : FinishRun(TheTask, runID) /\ UNCHANGED cvars
    \/ NextDueRun(TheTask) /\ UNCHANGED cvars

Spec == Init /\ [][Next]_vars

\* The scheduler of two tasks that share the service: the gate, the manual
\* queue and completion.
TwoTaskConfigs(id) ==
    { Task(id, Dur(2), EmptyStr, EmptyStr, FormatRFC3339(TimeUnix(2))) }
NextTasks ==
    \/ \E id \in TaskIDs : \E task \in TwoTaskConfigs(id) : SetTask(task) /\ UNCHANGED cvars
    \/ \E taskID \in TaskIDs, now \in {2, 4} : CreateNextRun(taskID, now) /\ UNCHANGED cvars
    \/ \E slice \in ManualSlices(TaskIDs, {2 * SubSec}) : SetManualRuns(slice) /\ UNCHANGED cvars
    \/ \E taskID \in TaskIDs, runID \in RunIDs : StartManualRun(taskID, runID) /\ UNCHANGED cvars
    \/ \E taskID \in TaskIDs, runID \in RunIDs : FinishRun(taskID, runID) /\ UNCHANGED cvars

SpecTasks == Init /\ [][NextTasks]_vars

\* The lifecycle of the runs of one task: runs are made by the gate and by
\* CreateRun, the executor reports their states and logs, and finishes them.
MaxTracked == 2
LifecycleConfigs(id) ==
    { Task(id, Dur(2), EmptyStr, EmptyStr, FormatRFC3339(TimeUnix(2))) }
NextLifecycle ==
    \/ \E task \in LifecycleConfigs(TheTask) : SetTask(task) /\ UNCHANGED cvars
    \/ \E now \in {4, 6} : nextID <= MaxTracked /\ CreateNextRun(TheTask, now) /\ UNCHANGED cvars
    \/ \E at \in AdminTimes : nextID <= MaxTracked /\ CreateRun(TheTask, at) /\ UNCHANGED cvars
    \/ \E runID \in RunIDs : FinishRun(TheTask, runID) /\ UNCHANGED cvars
    \/ \E runID \in RunIDs, when \in Whens, state \in Statuses \cup {BadStatus} :
            UpdateRunState(TheTask, runID, when, state) /\ UNCHANGED cvars
    \/ \E runID \in RunIDs, when \in Whens : AddRunLog(TheTask, runID, when, "log") /\ UNCHANGED cvars

SpecLifecycle == Init /\ [][NextLifecycle]_vars

\* The executor reporting on runs that CreateRun made.
NextExecutor ==
    \/ \E task \in LifecycleConfigs(TheTask) : SetTask(task) /\ UNCHANGED cvars
    \/ \E at \in AdminTimes : nextID <= MaxTracked /\ CreateRun(TheTask, at) /\ UNCHANGED cvars
    \/ \E runID \in RunIDs, when \in Whens, state \in Statuses \cup {BadStatus} :
            UpdateRunState(TheTask, runID, when, state) /\ UNCHANGED cvars
    \/ \E runID \in RunIDs, when \in Whens : AddRunLog(TheTask, runID, when, "log") /\ UNCHANGED cvars

SpecExecutor == Init /\ [][NextExecutor]_vars

\* Every operation on one task, the executor reporting a start and a success.
NextWatermark ==
    \/ \E task \in LifecycleConfigs(TheTask) : SetTask(task) /\ UNCHANGED cvars
    \/ \E now \in {6} : nextID <= MaxTracked /\ CreateNextRun(TheTask, now) /\ UNCHANGED cvars
    \/ \E at \in AdminTimes : nextID <= MaxTracked /\ CreateRun(TheTask, at) /\ UNCHANGED cvars
    \/ \E slice \in ManualSlices({TheTask}, {2 * SubSec}) :
            /\ Len(slice) <= 1 /\ nextID + Len(slice) - 1 <= MaxTracked
            /\ SetManualRuns(slice) /\ UNCHANGED cvars
    \/ \E runID \in RunIDs : StartManualRun(TheTask, runID) /\ UNCHANGED cvars
    \/ \E runID \in RunIDs : FinishRun(TheTask, runID) /\ UNCHANGED cvars
    \/ \E runID \in RunIDs, when \in {3 * SubSec}, state \in {RunStarted, RunSuccess} :
            UpdateRunState(TheTask, runID, when, state) /\ UNCHANGED cvars
    \/ \E runID \in RunIDs, when \in {3 * SubSec} :
            AddRunLog(TheTask, runID, when, "log") /\ UNCHANGED cvars
    \/ NextDueRun(TheTask) /\ UNCHANGED cvars

SpecWatermark == Init /\ [][NextWatermark]_vars

\* Concurrent callers of the service, for one task.
ConcurrentConfigs(id) ==
    { Task(id, Dur(2), EmptyStr, EmptyStr, EmptyStr),
      Task(id, Dur(2), EmptyStr, EmptyStr, FormatRFC3339(TimeUnix(2))) }
NextConcurrent ==
    \/ \E task \in ConcurrentConfigs(TheTask) : LockedSetTask(task)
    \/ \E c \in Callers, now \in {4} : CreateNextRunLock(c, TheTask, now)
    \/ \E c \in Callers : CreateNextRunCheck(c)
    \/ \E c \in Callers : CreateNextRunHead(c)
    \/ \E c \in Callers : CreateNextRunPop(c)
    \/ \E c \in Callers : CreateNextRunServe(c)
    \/ \E c \in Callers, runID \in RunIDs : FinishRunDelete(c, TheTask, runID)
    \/ \E c \in Callers : FinishRunComplete(c)
    \/ \E c \in Callers, slice \in ManualSlices({TheTask}, {2 * SubSec}) :
            SetManualRunsStore(c, slice)
    \/ \E c \in Callers, slice \in ManualSlices({TheTask}, {2 * SubSec}) :
            SetManualRunsTear(c, slice)
    \/ \E c \in Callers : SetManualRunsRest(c)
    \/ \E c \in Callers, runID \in RunIDs : StartManualRunFind(c, TheTask, runID)
    \/ \E c \in Callers : StartManualRunCut(c)
    \/ \E c \in Callers : StartManualRunAssign(c)

SpecConcurrent == Init /\ [][NextConcurrent]_vars

\* Concurrent callers of the operations that hold d.mu from their first
\* statement to their return; SetManualRuns is called while no other call is
\* under way.
NextLocked ==
    \/ \E task \in ConcurrentConfigs(TheTask) : LockedSetTask(task)
    \/ \E c \in Callers, now \in {2, 4} : CreateNextRunLock(c, TheTask, now)
    \/ \E c \in Callers : CreateNextRunCheck(c)
    \/ \E c \in Callers : CreateNextRunHead(c)
    \/ \E c \in Callers : CreateNextRunPop(c)
    \/ \E c \in Callers : CreateNextRunServe(c)
    \/ \E c \in Callers, runID \in RunIDs : FinishRunDelete(c, TheTask, runID)
    \/ \E c \in Callers : FinishRunComplete(c)
    \/ \E c \in Callers, slice \in ManualSlices({TheTask}, {2 * SubSec}) :
            (\A d \in Callers : calls[d].pc = "idle") /\ SetManualRunsStore(c, slice)

SpecLocked == Init /\ [][NextLocked]_vars

\* The manual queue of one task whose watermark is the tick 2: runs are asked
\* for that tick again, taken by ID or served by CreateNextRun, and finished.
RetryTimes == {SubSec + 1, 2 * SubSec}
\* The task with its schedule, and the task with neither Every nor Cron.
QueueConfigs(id) ==
    LifecycleConfigs(id) \cup
    { Task(id, EmptyStr, EmptyStr, EmptyStr, FormatRFC3339(TimeUnix(2))) }
NextQueue ==
    \/ \E task \in QueueConfigs(TheTask) : SetTask(task) /\ UNCHANGED cvars
    \/ \E taskID \in {TheTask, InvalidID}, now \in {4} : CreateNextRun(taskID, now) /\ UNCHANGED cvars
    \/ \E slice \in ManualSlices({TheTask}, RetryTimes) : SetManualRuns(slice) /\ UNCHANGED cvars
    \/ \E runID \in RunIDs : StartManualRun(TheTask, runID) /\ UNCHANGED cvars
    \/ \E runID \in RunIDs : FinishRun(TheTask, runID) /\ UNCHANGED cvars
    \/ NextDueRun(TheTask) /\ UNCHANGED cvars

SpecQueue == Init /\ [][NextQueue]_vars

\* The schedule gate alone, for every task configuration: no manual run is
\* ever queued.
NextGate ==
    \/ \E task \in TaskConfigs(TheTask) : SetTask(task) /\ UNCHANGED cvars
    \/ \E now \in Nows : CreateNextRun(TheTask, now) /\ UNCHANGED cvars
    \/ \E runID \in RunIDs : FinishRun(TheTask, runID) /\ UNCHANGED cvars
    \/ NextDueRun(TheTask) /\ UNCHANGED cvars

SpecGate == Init /\ [][NextGate]_vars

\* The manual queue and the slices that ManualRuns has returned to callers.
NextSnapshot ==
    \/ \E task \in LifecycleConfigs(TheTask) : SetTask(task) /\ UNCHANGED cvars
    \/ \E c \in Callers : ManualRunsReturn(c, TheTask)
    \/ \E now \in {4} : CreateNextRunReslice(TheTask, now)
    \/ \E slice \in ManualSlices({TheTask}, {2 * SubSec}) : SetManualRunsReplace(slice)
    \/ \E runID \in RunIDs : StartManualRunInPlace(TheTask, runID)

SpecSnapshot == Init /\ [][NextSnapshot]_vars

\* The resolver of the schedule: tasks of every kind of Every and Cron, and
\* the gate and the due-time query that resolve their schedule.
Everys ==
    {EmptyStr, <<"garbage">>, Dur(0), Dur(0 - 604800), Dur(1), Dur(3), Dur(59),
     Dur(60), Dur(180), Dur(3540), Dur(3600), Dur(7200)}
Crons == {EmptyStr, <<"cron", CronExpr(At(0), Star, Star)>>, <<"garbage">>}
CronConfigs(id) ==
    { Task(id, every, cron, EmptyStr, EmptyStr) : every \in Everys, cron \in Crons }
CronNows == {0, 3, 60, 180, 7200}
NextCron ==
    \/ \E task \in CronConfigs(TheTask) : SetTask(task) /\ UNCHANGED cvars
    \/ \E now \in CronNows : nextID <= MaxTracked /\ CreateNextRun(TheTask, now) /\ UNCHANGED cvars
    \/ \E runID \in RunIDs : FinishRun(TheTask, runID) /\ UNCHANGED cvars
    \/ NextDueRun(TheTask) /\ UNCHANGED cvars

SpecCron == Init /\ [][NextCron]_vars

\* ================================================================== claims
\* The IDs of the runs the schedule gate made for a task.
GateIDs(taskID) == {gateLog[i].run : i \in {j \in 1..Len(gateLog) : gateLog[j].task = taskID}}
\* The manual runs in flight for a task: a manual run carries the ID of a task.
ManualInFlight(taskID) == {id \in DOMAIN runs[taskID] : runs[taskID][id].TaskID # InvalidID}

\* C1: no two runs made by the schedule gate that are in flight for a task at
\* the same time have the same ScheduledFor.
C1_NoDuplicateTickInFlight ==
    \A t \in TaskIDs : \A a, b \in DOMAIN runs[t] \cap GateIDs(t) :
        a # b => runs[t][a].ScheduledFor # runs[t][b].ScheduledFor

\* Two runs of the gate are in flight for the task, the second made while the
\* first was not finished.
C1_Witness ==
    /\ res.op = "CreateNextRun" /\ res.path = "gate" /\ res.err = ""
    /\ Cardinality(DOMAIN runs[TheTask] \cap GateIDs(TheTask)) >= 2

\* C2: the ScheduledFor of the runs the schedule gate makes for a task are
\* strictly increasing, whatever was finished in between.
C2_GateTicksStrictlyIncreasing ==
    \A i, j \in 1..Len(gateLog) :
        (i < j /\ gateLog[i].task = gateLog[j].task)
            => gateLog[i].ScheduledFor < gateLog[j].ScheduledFor

\* The watermark as a number: the Unix second of LatestCompleted, the empty
\* text earlier than every time.
Watermark(s) == IF ParseRFC3339Ok(s) THEN s[2] ELSE 0 - 1

\* C3: LatestCompleted of a task never decreases.
C3_WatermarkMonotone ==
    [][\A t \in DOMAIN tasks :
         LET a == tasks[t].LatestCompleted
             b == tasks'[t].LatestCompleted
         IN  \/ a = b
             \/ /\ ParseRFC3339Ok(b)
                /\ a = EmptyStr \/ ParseRFC3339Ok(a)
                /\ Watermark(b) >= Watermark(a)]_vars

\* A run older than the watermark has been finished, and the watermark had
\* moved before.
C3_Witness ==
    /\ res.op = "FinishRun" /\ res.err = ""
    /\ ParseRFC3339Ok(tasks[res.task].LatestCompleted)
    /\ Unix(finishedRuns[res.run].ScheduledFor) < Watermark(tasks[res.task].LatestCompleted)
    /\ \E id \in DOMAIN finishedRuns :
          FormatRFC3339(finishedRuns[id].ScheduledFor) = tasks[res.task].LatestCompleted

\* C4: after a successful FinishRun the watermark of the task is the later of
\* its value before and the ScheduledFor of the run, the empty watermark
\* earlier than every time.
C4_FinishSetsWatermark ==
    [][(res'.op = "FinishRun" /\ res'.err = "")
         => LET t == res'.task
                r == runs[t][res'.run]
                before == tasks[t].LatestCompleted
            IN  tasks'[t].LatestCompleted =
                  IF Unix(r.ScheduledFor) > Watermark(before)
                  THEN FormatRFC3339(r.ScheduledFor)
                  ELSE before]_vars

\* The claimed latest tick of a task: the greatest of the watermark, the
\* ScheduledFor of the runs in flight, and 0, in Unix seconds.
ClaimLatest(taskID) ==
    LET lc == tasks[taskID].LatestCompleted
        S == {Unix(runs[taskID][id].ScheduledFor) : id \in DOMAIN runs[taskID]}
             \cup {IF ParseRFC3339Ok(lc) THEN lc[2] ELSE 0, 0}
    IN  CHOOSE m \in S : \A x \in S : x <= m
\* The offset of a task, in seconds.
OffsetSeconds(task) == IF ParseDurationOk(task.Offset) THEN task.Offset[2] ELSE 0
\* The schedule of a task with a valid schedule.
ScheduleOf(taskID) == CronParse(EffectiveCron(tasks[taskID]))
ValidSchedule(taskID) ==
    taskID \in DOMAIN tasks /\ CronParseOk(EffectiveCron(tasks[taskID]))
\* The claimed dueAt: schedule.Next(latest) + Offset, in Unix seconds.
ClaimDueAt(taskID) ==
    Unix(SchNext(ScheduleOf(taskID), TimeUnix(ClaimLatest(taskID))))
        + OffsetSeconds(tasks[taskID])

\* C5: with no manual run queued, CreateNextRun of a task with a valid schedule
\* returns RunNotDueYet(dueAt) exactly when dueAt > now and makes a run exactly
\* when dueAt <= now, for dueAt = schedule.Next(latest) + Offset.
C5_DueTimeGating ==
    [][\A t \in TaskIDs, now \in Nows :
         (ValidSchedule(t) /\ manualRuns = <<>> /\ CreateNextRun(t, now))
            => /\ (res'.err = "RunNotDueYet") <=> (ClaimDueAt(t) > now)
               /\ (res'.err = "RunNotDueYet") => (res'.dueAt = ClaimDueAt(t))
               /\ (gateLog' # gateLog) <=> (ClaimDueAt(t) <= now)]_vars

\* C6: the offset is added in seconds: the dueAt of RunNotDueYet, the NextDue
\* of a creation and the value of NextDueRun are the tick plus the offset in
\* seconds.
C6_OffsetInSeconds ==
    /\ (res.op = "NextDueRun" /\ res.err = "") => res.NextDue = ClaimDueAt(res.task)
    /\ (res.op = "CreateNextRun" /\ res.err = "RunNotDueYet")
          => res.dueAt = ClaimDueAt(res.task)
    /\ (res.op = "CreateNextRun" /\ res.path = "gate" /\ res.err = "")
          => res.NextDue =
               Unix(SchNext(ScheduleOf(res.task),
                            runs[res.task][res.Created.RunID].ScheduledFor))
                 + OffsetSeconds(tasks[res.task])

\* C7: while a manual run is queued, CreateNextRun of a known task serves a
\* manual run, whatever now is: it does not return RunNotDueYet and the
\* schedule gate makes no run.
C7_ManualBeforeGate ==
    [][(res'.op = "CreateNextRun" /\ res'.task \in DOMAIN tasks /\ manualRuns # <<>>)
         => /\ res'.err = "" /\ res'.path = "manual"
            /\ gateLog' = gateLog /\ nextID' = nextID
            /\ Len(manualRuns') = Len(manualRuns) - 1]_vars

\* A manual run was served to a task with a valid schedule for which the
\* schedule gate has made no run.
C7_Witness ==
    /\ res.op = "CreateNextRun" /\ res.path = "manual" /\ res.err = ""
    /\ ManualInFlight(res.task) # {}
    /\ ValidSchedule(res.task) /\ gateLog = <<>>

\* C8: CreateNextRun serves the manual runs in the order of the queue: each
\* call returns the head, removes exactly the head, and the run served is in
\* flight for the task when the call returns.
C8_ManualFIFO ==
    [][(res'.op = "CreateNextRun" /\ res'.path = "manual")
         => /\ res'.Created.RunID = Head(manualRuns).ID
            /\ manualRuns' = Tail(manualRuns)
            /\ Head(manualRuns).ID \in DOMAIN runs'[res'.task]
            /\ runs'[res'.task][Head(manualRuns).ID] = Head(manualRuns)]_vars

\* Two manual runs queued together were served one after the other and are
\* both in flight.
C8_Witness ==
    /\ res.op = "CreateNextRun" /\ res.path = "manual" /\ ~res.HasQueue
    /\ Cardinality(ManualInFlight(res.task)) >= 2
    /\ res.Created.RunID \in ManualInFlight(res.task)
    /\ \A id \in ManualInFlight(res.task) : id <= res.Created.RunID

\* C9: the manual queue is per task: with both tasks known to the service, a
\* manual run queued for another task is not served by CreateNextRun of a task
\* and is not put among its runs in flight.
C9_ManualQueuePerTask ==
    DOMAIN tasks = TaskIDs =>
    /\ \A t \in TaskIDs : \A id \in ManualInFlight(t) : runs[t][id].TaskID = t
    /\ (res.op = "CreateNextRun" /\ res.path = "manual")
          => runs[res.task][res.Created.RunID].TaskID = res.task

\* C10: a run that has left Scheduled is never Scheduled again.
C10_NeverScheduledAgain ==
    [][\A t \in TaskIDs : \A id \in DOMAIN runs[t] \cap DOMAIN runs'[t] :
         runs[t][id].Status \in {RunStarted, RunSuccess, RunFail, RunCanceled}
            => runs'[t][id].Status # RunScheduled]_vars

\* The statuses that end a run.
Terminal == {RunSuccess, RunFail, RunCanceled}

\* C11: the status of a run follows Scheduled -> Started -> Success | Failed |
\* Canceled (Scheduled -> Success | Failed | Canceled allowed) and nothing
\* else: once the status is Success, Failed or Canceled, no UpdateRunState
\* makes it Started or another of the three, and no step leads from Started
\* back to Scheduled.
C11_StatusStateMachine ==
    [][\A t \in TaskIDs : \A id \in DOMAIN runs[t] \cap DOMAIN runs'[t] :
         LET a == runs[t][id].Status
             b == runs'[t][id].Status
         IN  /\ a \in Terminal => b = a
             /\ a = RunStarted => b \in Terminal \cup {RunStarted}]_vars

\* The runs in flight for a task that have not ended.
NonTerminal(taskID) ==
    {id \in DOMAIN runs[taskID] : runs[taskID][id].Status \notin Terminal}

\* C12: for every task, no two runs in flight that have not ended have the
\* same ScheduledFor.
C12_OneLiveRunPerTick ==
    \A t \in TaskIDs : \A a, b \in NonTerminal(t) :
        a # b => runs[t][a].ScheduledFor # runs[t][b].ScheduledFor

\* The entries of gateLog for a task, as indices, in the order they were made.
GateEntries(taskID) == {i \in 1..Len(gateLog) : gateLog[i].task = taskID}
\* The watermark a tick is computed from, in Unix seconds: 0 when the text is
\* not an RFC3339 time.
WatermarkUnix(s) == IF ParseRFC3339Ok(s) THEN s[2] ELSE 0

\* C13: no tick is skipped: a run the schedule gate makes for a task with a
\* valid schedule has the tick that follows the ScheduledFor of the run the
\* gate made before it for the task; the first run the gate makes for a task,
\* made before any run was finished (the watermark is then the initial one),
\* has the tick that follows the watermark.
C13_NoTickSkipped ==
    [][\A t \in DOMAIN tasks :
         (ValidSchedule(t) /\ GateEntries(t) # GateEntries(t)')
            => LET new == gateLog'[Len(gateLog')]
                   prev == {i \in GateEntries(t) : \A j \in GateEntries(t) : j <= i}
               IN  /\ \A i \in prev :
                        new.ScheduledFor = SchNext(ScheduleOf(t), gateLog[i].ScheduledFor)
                   /\ (prev = {} /\ finishedRuns = EmptyMap)
                        => new.ScheduledFor =
                             SchNext(ScheduleOf(t),
                                     TimeUnix(WatermarkUnix(tasks[t].LatestCompleted)))]_vars

\* C16: StartedAt and FinishedAt of a run are set once: a value that is set
\* is not changed by a later step.
C16_TimesSetOnce ==
    [][\A t \in TaskIDs : \A id \in DOMAIN runs[t] \cap DOMAIN runs'[t] :
         /\ runs[t][id].StartedAt # ZeroTime
               => runs'[t][id].StartedAt = runs[t][id].StartedAt
         /\ runs[t][id].FinishedAt # ZeroTime
               => runs'[t][id].FinishedAt = runs[t][id].FinishedAt]_vars

\* C17: UpdateRunState of a run in flight with Started sets StartedAt to when
\* and the status to Started and leaves FinishedAt; with Success, Failed or
\* Canceled it sets FinishedAt to when and the status to that value and leaves
\* StartedAt; neither changes ScheduledFor, the log, the other runs, the set
\* of runs in flight or the watermark.
C17_UpdateRunStateEffect ==
    [][\A t \in TaskIDs, runID \in RunIDs, when \in Whens, state \in Statuses :
         (runID \in DOMAIN runs[t] /\ UpdateRunState(t, runID, when, state))
            => LET a == runs[t][runID]
                   b == runs'[t][runID]
               IN  /\ state = RunStarted
                        => /\ b.StartedAt = when /\ b.Status = RunStarted
                           /\ b.FinishedAt = a.FinishedAt
                   /\ state \in Terminal
                        => /\ b.FinishedAt = when /\ b.Status = state
                           /\ b.StartedAt = a.StartedAt
                   /\ b.ScheduledFor = a.ScheduledFor /\ b.Log = a.Log
                   /\ b.ID = a.ID /\ b.TaskID = a.TaskID
                   /\ \A u \in DOMAIN runs : DOMAIN runs'[u] = DOMAIN runs[u]
                   /\ \A u \in DOMAIN runs : \A id \in DOMAIN runs[u] :
                        (u # t \/ id # runID) => runs'[u][id] = runs[u][id]
                   /\ tasks' = tasks /\ finishedRuns' = finishedRuns
                   /\ manualRuns' = manualRuns /\ created' = created]_vars

\* A run was started and then ended at another instant: it carries both
\* times, each as it was given.
C17_Witness ==
    /\ res.op = "UpdateRunState" /\ res.err = ""
    /\ \E id \in DOMAIN runs[res.task] :
          LET r == runs[res.task][id]
          IN  /\ r.Status \in Terminal
              /\ r.StartedAt \in Whens /\ r.FinishedAt \in Whens
              /\ r.StartedAt # r.FinishedAt

\* C18: a run the schedule gate makes is put among the runs in flight of the
\* task with ScheduledFor = schedule.Next(latest) and the status Scheduled,
\* and its status stays Scheduled until an UpdateRunState changes it.
C18_GateRunIsScheduled ==
    [][/\ \A t \in DOMAIN tasks :
            (ValidSchedule(t) /\ GateEntries(t) # GateEntries(t)')
               => LET new == gateLog'[Len(gateLog')]
                  IN  /\ new.run \in DOMAIN runs'[t] \ DOMAIN runs[t]
                      /\ runs'[t][new.run].ScheduledFor =
                            SchNext(ScheduleOf(t), TimeUnix(ClaimLatest(t)))
                      /\ runs'[t][new.run].Status = RunScheduled
       /\ \A t \in TaskIDs : \A id \in GateIDs(t) \cap DOMAIN runs[t] \cap DOMAIN runs'[t] :
            (runs[t][id].Status = RunScheduled /\ res'.op # "UpdateRunState")
               => runs'[t][id].Status = RunScheduled]_vars

\* C19: a creation by the schedule gate returns NextDue = schedule.Next(the
\* ScheduledFor of the run made) + Offset and HasQueue = false, and Created
\* names the run made: its TaskID is the task asked for, its RunID is the ID
\* of a run in flight for that task, and its time is the ScheduledFor of that
\* run.
C19_GateRunCreation ==
    (res.op = "CreateNextRun" /\ res.path = "gate" /\ res.err = "")
       => /\ res.Created.TaskID = res.task
          /\ res.Created.RunID \in DOMAIN runs[res.task]
          /\ ~res.HasQueue
          /\ LET r == runs[res.task][res.Created.RunID]
             IN  /\ r.ID = res.Created.RunID
                 /\ TimeUnix(res.Created.Now) = r.ScheduledFor
                 /\ res.NextDue =
                       Unix(SchNext(ScheduleOf(res.task), r.ScheduledFor))
                         + OffsetSeconds(tasks[res.task])

InCreateNextRun(c) == calls[c].pc \in {"check", "head", "pop", "serve"}
InFinishRun(c) == calls[c].pc = "finish"
\* The FinishRun calls that have returned a run: d.finishedRuns.
Returned == DOMAIN finishedRuns

\* C14: CreateNextRun and FinishRun of concurrent callers are atomic: no
\* caller is inside one of them while another caller is inside one of them.
C14_Atomic ==
    \A c, d \in Callers :
        (c # d /\ (InCreateNextRun(c) \/ InFinishRun(c)))
           => ~(InCreateNextRun(d) \/ InFinishRun(d))

\* C14: and every FinishRun that returned before a CreateNextRun began is
\* reflected in the latest that CreateNextRun computes: the run is not in
\* flight, and latest is not before its ScheduledFor (the watermark has
\* moved up to it).
C14_FinishReflected ==
    \A c \in Callers :
        (calls[c].pc = "check" /\ ValidSchedule(calls[c].task))
           => \A id \in Returned :
                 /\ id \notin DOMAIN runs[calls[c].task]
                 /\ createNextRunLatest(tasks[calls[c].task], runs[calls[c].task])
                       >= Unix(finishedRuns[id].ScheduledFor)

\* C14: for one task, CreateNextRun and FinishRun of concurrent callers are
\* linearizable.
C14_Linearizable == C14_Atomic /\ C14_FinishReflected

\* The caller is inside an operation: between its first and its last access
\* to the state of the service.
InOperation(c) == calls[c].pc # "idle"

\* C15: the operations that change the state of a task exclude each other,
\* those on the manual queue included: the queue is not changed under a
\* caller that is inside an operation by the step of another caller, and the
\* run CreateNextRun serves is the run it takes off the queue, so that no
\* queued run is lost and no replaced run is served.
C15_ManualQueueExclusive ==
    [][/\ manualRuns' # manualRuns
            => \A d \in Callers : InOperation(d) => calls'[d] # calls[d]
       /\ \A c \in Callers :
            (calls[c].pc = "pop" /\ calls'[c].pc = "serve")
               => /\ manualRuns # <<>>
                  /\ Head(manualRuns) = calls[c].run]_vars

\* ------------------------------------------------------ manual queue claims
IsPrefix(p, s) == Len(p) <= Len(s) /\ \A i \in 1..Len(p) : s[i] = p[i]

\* C21: SetManualRuns enqueues by appending: the manual runs pending before
\* the call are still in the queue after it, in front of the runs given.
C21_SetManualRunsAppends ==
    [][res'.op = "SetManualRuns" => IsPrefix(manualRuns, manualRuns')]_vars

\* The queue q without its element at index i.
RemoveAt(q, i) == [k \in 1..(Len(q) - 1) |-> IF k < i THEN q[k] ELSE q[k + 1]]

\* The indexes of the queued manual runs with the ID runID.
QueuedAt(runID) == {i \in 1..Len(manualRuns) : manualRuns[i].ID = runID}

C23_CurrentlyRunningNonTerminal ==
    \A r \in CurrentlyRunning(TheTask) : r.Status \notin Terminal

\* ------------------------------------------------------------ retry claims
\* A run of a task with a schedule is a retry: its ScheduledFor is at or
\* before the watermark of the task.
IsRetry(r, taskID) ==
    /\ ValidSchedule(taskID)
    /\ ParseRFC3339Ok(tasks[taskID].LatestCompleted)
    /\ r.ScheduledFor <= ParseRFC3339(tasks[taskID].LatestCompleted)

\* The tick the regular gate creates next: schedule.Next(latest).
GateTick(taskID) == SchNext(ScheduleOf(taskID), TimeUnix(ClaimLatest(taskID)))

\* C24: a queued manual run at or before the watermark is still served by
\* CreateNextRun, and serving it and finishing it change neither the
\* watermark nor the tick the regular gate creates next.
C24_RetryLeavesWatermark ==
    [][/\ \A now \in Nows :
            (/\ res'.op = "CreateNextRun"
             /\ manualRuns # <<>> /\ IsRetry(Head(manualRuns), TheTask)
             /\ CreateNextRun(TheTask, now))
               => /\ res'.err = "" /\ res'.path = "manual"
                  /\ res'.Created.RunID = Head(manualRuns).ID
                  /\ Head(manualRuns).ID \in DOMAIN runs'[TheTask]
                  /\ tasks' = tasks
                  /\ GateTick(TheTask)' = GateTick(TheTask)
       /\ \A runID \in RunIDs :
            (/\ res'.op = "FinishRun"
             /\ runID \in ManualInFlight(TheTask)
             /\ IsRetry(runs[TheTask][runID], TheTask)
             /\ FinishRun(TheTask, runID))
               => /\ res'.err = "" /\ res'.run = runID
                  /\ runID \notin DOMAIN runs'[TheTask]
                  /\ tasks' = tasks
                  /\ GateTick(TheTask)' = GateTick(TheTask)]_vars

\* A manual run for an instant before the watermark was served and has been
\* finished, with a run of the gate in flight.
C24_Witness ==
    /\ res.op = "FinishRun" /\ res.err = ""
    /\ res.run \in DOMAIN finishedRuns
    /\ res.run \notin GateIDs(TheTask)
    /\ finishedRuns[res.run].ScheduledFor < ParseRFC3339(tasks[TheTask].LatestCompleted)
    /\ \E id \in GateIDs(TheTask) : id \in DOMAIN runs[TheTask]

\* ------------------------------------------------------------ error claims
\* C25: FinishRun for a run that is not in flight for the task returns the
\* error NotFound and changes nothing: the runs in flight, the finished runs,
\* the created handles and the watermark are as before.
C25_FinishRunNotFound ==
    [][\A runID \in RunIDs :
         (runID \notin DOMAIN runs[TheTask] /\ FinishRun(TheTask, runID))
            => /\ res'.err = "ErrRunNotFound"
               /\ ~panicked'
               /\ UNCHANGED <<runs, finishedRuns, created, tasks>>]_vars

\* C26: for a task that the service does not know, CreateNextRun returns the
\* error NotFound, takes no manual run from the queue and makes no run, and
\* NextDueRun returns an error: neither call aborts.
C26_UnknownTaskNotFound ==
    [][TheTask \notin DOMAIN tasks =>
         /\ \A now \in Nows :
               CreateNextRun(TheTask, now)
                  => /\ res'.err = "ErrTaskNotFound" /\ ~panicked'
                     /\ UNCHANGED <<manualRuns, runs, created, totalRunsCreated>>
         /\ NextDueRun(TheTask) => (res'.err \notin {"", "panic"} /\ ~panicked')]_vars

\* C27: a failure to resolve the schedule propagates: CreateNextRun of a task
\* whose Every and Cron give no schedule returns InvalidSchedule and no
\* RunCreation, from the gate and while a manual run is queued alike; a
\* RunCreation it returns carries NextDue = schedule.Next(latest) + Offset of
\* a parsed schedule.
C27_ScheduleFailurePropagates ==
    [][\A now \in Nows :
         (TheTask \in DOMAIN tasks /\ CreateNextRun(TheTask, now))
            => IF ValidSchedule(TheTask)
               THEN res'.err = "" => res'.NextDue = ClaimDueAt(TheTask)'
               ELSE /\ res'.err = "InvalidSchedule"
                    /\ res'.Created = NoQueuedRun
                    /\ UNCHANGED <<runs, created, totalRunsCreated>>]_vars

\* ------------------------------------------------------- NextDueRun claims
\* C28: NextDueRun changes nothing, and it agrees with the gate: with no
\* manual run queued, CreateNextRun(taskID, now) of a task with a schedule
\* makes a run exactly when now is at or after what NextDueRun(taskID)
\* returns, and the dueAt of RunNotDueYet is that value.
C28_NextDueRunAgreesWithGate ==
    [][/\ (res'.op = "NextDueRun" /\ TheTask \in DOMAIN tasks)
            => /\ UNCHANGED <<tasks, runs, created, manualRuns, totalRunsCreated,
                              finishedRuns, nextID, gateLog>>
               /\ ~panicked'
       /\ (/\ res'.op = "CreateNextRun" /\ res'.task = TheTask
           /\ ValidSchedule(TheTask) /\ manualRuns = <<>>)
            => LET due == nextDueRun(tasks[TheTask], runs[TheTask]).next
               IN  /\ res'.err \in {"", "RunNotDueYet"}
                   /\ res'.err = "" => res'.Created.RunID \in DOMAIN runs'[TheTask]
                   /\ res'.err = "RunNotDueYet" => res'.dueAt = due
                   /\ \A now \in Nows :
                         CreateNextRun(TheTask, now)
                            => ((res'.err = "") <=> (now >= due))]_vars

\* NextDueRun has returned the due time of a task with an offset and a run of
\* the gate in flight; the gate then refused with that dueAt.
C28_Witness ==
    /\ res.op = "CreateNextRun" /\ res.err = "RunNotDueYet"
    /\ manualRuns = <<>>
    /\ tasks[TheTask].Offset # EmptyStr
    /\ GateIDs(TheTask) \cap DOMAIN runs[TheTask] # {}
    /\ res.dueAt = nextDueRun(tasks[TheTask], runs[TheTask]).next

\* ------------------------------------------------------ RunCreation claims
\* C29: when CreateNextRun serves a manual run of a task with a schedule, the
\* HasQueue returned is true exactly when a manual run is still queued after
\* the head was taken, and the NextDue returned is the regular due time
\* schedule.Next(latest) + Offset, no regular run being made.
C29_ManualRunCreation ==
    [][(/\ res'.op = "CreateNextRun" /\ res'.path = "manual"
        /\ res'.task = TheTask /\ ValidSchedule(TheTask))
          => /\ manualRuns' = Tail(manualRuns)
             /\ res'.HasQueue <=> (manualRuns' # <<>>)
             /\ res'.NextDue = ClaimDueAt(TheTask)'
             /\ UNCHANGED <<nextID, gateLog>>]_vars

\* ------------------------------------------------------- ManualRuns claims
\* C30: ManualRuns returns a read-only snapshot: the call changes nothing in
\* the service and returns the queue, and the slice a caller holds shows the
\* same runs after any later CreateNextRun, StartManualRun or SetManualRuns.
C30_ManualRunsSnapshot ==
    [][/\ res'.op = "ManualRuns"
            => /\ UNCHANGED <<tasks, runs, created, manualRuns, totalRunsCreated,
                              finishedRuns, nextID, gateLog>>
               /\ \E c \in Callers : calls'[c].arr = manualRuns
       /\ res'.op \in {"CreateNextRun", "StartManualRun", "SetManualRuns"}
            => \A c \in Callers : calls'[c].arr = calls[c].arr]_vars

\* ------------------------------------------------------ EffectiveCron claims
\* C31: Cron wins over Every: for every task with a non-empty Cron,
\* EffectiveCron is the Cron text itself, whatever Every is.
C31_CronPrecedence ==
    \A t \in DOMAIN tasks :
        tasks[t].Cron # EmptyStr => EffectiveCron(tasks[t]) = tasks[t].Cron

\* A task with both Every = 2h and a Cron of every minute had its due time
\* computed from the Cron: the minute after 0.
C31_Witness ==
    /\ res.op = "NextDueRun" /\ res.err = ""
    /\ tasks[TheTask].Every = Dur(7200)
    /\ tasks[TheTask].Cron # EmptyStr
    /\ res.NextDue = 60

\* The seconds of a task's Every, when it is a duration.
EverySeconds(task) == task.Every[2]
\* A task scheduled by a positive interval alone.
ByInterval(task) ==
    task.Cron = EmptyStr /\ ParseDurationOk(task.Every) /\ EverySeconds(task) > 0
\* The expressions the test of EffectiveCron expects, by the seconds of Every.
ExpectedCron ==
    (1 :> CronExpr(EveryN(1), EveryN(1), EveryN(1))) @@
    (60 :> CronExpr(At(0), EveryN(1), EveryN(1))) @@
    (180 :> CronExpr(At(0), EveryN(3), EveryN(1))) @@
    (3600 :> CronExpr(At(0), At(0), EveryN(1))) @@
    (7200 :> CronExpr(At(0), At(0), EveryN(2)))

\* C32: for a task with no Cron and a positive Every, EffectiveCron is an
\* expression of seven fields, the last four "*", on exactly one band: under
\* 60s "*/N */1 */1" with N the seconds, from 60s and under 3600s "0 */N */1"
\* with N the minutes, from 3600s "0 0 */N" with N the hours; 1s, 1m, 3m, 1h
\* and 2h give the expressions the test expects.
C32_IntervalMapping ==
    \A t \in DOMAIN tasks :
        ByInterval(tasks[t]) =>
            LET d == EverySeconds(tasks[t])
                c == EffectiveCron(tasks[t])
                e == c[2]
            IN  /\ CronParseOk(c)
                /\ DOMAIN e = {"sec", "min", "hour", "dom", "month", "dow", "year"}
                /\ e.dom = Star /\ e.month = Star /\ e.dow = Star /\ e.year = Star
                /\ d < 60 => << e.sec, e.min, e.hour >> = << EveryN(d), EveryN(1), EveryN(1) >>
                /\ (60 <= d /\ d < 3600)
                      => << e.sec, e.min, e.hour >> = << At(0), EveryN(d \div 60), EveryN(1) >>
                /\ d >= 3600
                      => << e.sec, e.min, e.hour >> = << At(0), At(0), EveryN(d \div 3600) >>
                /\ d \in DOMAIN ExpectedCron => e = ExpectedCron[d]

\* A task with Every = 1h and no Cron had its due time computed: the first
\* whole hour after 0.
C32_Witness ==
    /\ res.op = "NextDueRun" /\ res.err = ""
    /\ ByInterval(tasks[TheTask])
    /\ EverySeconds(tasks[TheTask]) = 3600
    /\ res.NextDue = 3600

\* A task with no Cron whose Every is empty, zero or negative.
NoSchedule(task) ==
    /\ task.Cron = EmptyStr
    /\ \/ task.Every = EmptyStr
       \/ ParseDurationOk(task.Every) /\ EverySeconds(task) <= 0

\* C33: for a task with no Cron and an Every that is negative, zero or empty,
\* EffectiveCron gives no cron expression, the schedule fails to resolve, and
\* CreateNextRun returns InvalidSchedule from the gate: the task never gets a
\* regular run.
C33_InvalidSchedule ==
    \A t \in DOMAIN tasks :
        NoSchedule(tasks[t]) =>
            /\ EffectiveCron(tasks[t]) = EmptyStr
            /\ ~CronParseOk(EffectiveCron(tasks[t]))
            /\ GateIDs(t) = {}
            /\ (res.op = "CreateNextRun" /\ res.task = t /\ res.path = "gate")
                  => (res.err = "InvalidSchedule" /\ res.Created = NoQueuedRun)

\* The gate has refused a task whose Every is zero.
C33_Witness ==
    /\ res.op = "CreateNextRun" /\ res.path = "gate" /\ res.err = "InvalidSchedule"
    /\ tasks[TheTask].Every = Dur(0)
    /\ NoSchedule(tasks[TheTask])

\* ---------------------------------------------------------- handle claims
\* The runs in flight for a task that CreateNextRun returned: those the gate
\* made and the manual runs it served.
ReturnedInFlight(taskID) ==
    (GateIDs(taskID) \cap DOMAIN runs[taskID]) \cup ManualInFlight(taskID)

\* C34: CreatedFor(taskID) is the set of the handles of the runs that
\* CreateNextRun returned for the task and that are not finished: each handle
\* names a run in flight for the task, each such run has its handle, and a
\* run that FinishRun took out of flight has none.
C34_CreatedForInFlight ==
    \A t \in TaskIDs :
        {qr.RunID : qr \in CreatedFor(t)} = ReturnedInFlight(t)

\* ------------------------------------------------- failed CreateNextRun
\* C35: a CreateNextRun that returns an error (RunNotDueYet, an invalid
\* schedule or an invalid task ID) changes nothing: the runs in flight, the
\* manual queue, the created handles, the counters of created runs, the
\* finished runs and the tasks with their watermarks are as before.
C35_FailedCreateNextRunNoEffect ==
    [][(res'.op = "CreateNextRun" /\ res'.err \notin {"", "panic"})
          => UNCHANGED <<runs, manualRuns, created, totalRunsCreated,
                         finishedRuns, tasks, nextID, gateLog>>]_vars

\* CreateNextRun has refused with RunNotDueYet while a run is in flight, a
\* manual run was served before and a run is finished.
C35_Witness ==
    /\ res.op = "CreateNextRun" /\ res.err = "RunNotDueYet"
    /\ DOMAIN runs[TheTask] # {}
    /\ DOMAIN finishedRuns # {}
    /\ created # EmptyMap

\* --------------------------------------------------------- due time claims
\* What NextDueRun(taskID) returns in a state, for a task with a schedule.
DueNow(taskID) == nextDueRun(tasks[taskID], runs[taskID]).next

\* C36: the regular due time never moves backwards: for a task with a valid
\* schedule, what NextDueRun returns does not decrease over a CreateNextRun,
\* CreateRun, UpdateRunState, AddRunLog or FinishRun that returns, also when
\* the only run in flight of a task with an empty LatestCompleted is finished.
C36_DueTimeMonotone ==
    [][(/\ ValidSchedule(TheTask) /\ ~panicked'
        /\ res'.op \in {"CreateNextRun", "CreateRun", "UpdateRunState",
                        "AddRunLog", "FinishRun"})
          => DueNow(TheTask)' >= DueNow(TheTask)]_vars

\* ------------------------------------------------------- FinishRun claims
\* C37: FinishRun is all-or-nothing.  When it returns an error, the run is
\* still in flight, its created handle is still there, and the finished runs
\* and the watermark are unchanged; when it returns the run, the run is out
\* of flight, its handle is removed and the run is among the finished runs.
C37_FinishRunAllOrNothing ==
    [][\A runID \in RunIDs :
         (res'.op = "FinishRun" /\ runID \in DOMAIN runs[TheTask]
          /\ FinishRun(TheTask, runID))
            => /\ res'.err \notin {"", "panic"}
                  => UNCHANGED <<runs, created, finishedRuns, tasks>>
               /\ res'.err = ""
                  => /\ runID \notin DOMAIN runs'[TheTask]
                     /\ <<TheTask, runID>> \notin DOMAIN created'
                     /\ runID \in DOMAIN finishedRuns'
                     /\ finishedRuns'[runID] = runs[TheTask][runID]]_vars

\* ------------------------------------------------- StartManualRun claims
\* C38: a run that StartManualRun has returned is tracked like any started
\* run: it is among the runs CurrentlyRunning returns for the task, and
\* UpdateRunState, AddRunLog and FinishRun for it return instead of aborting
\* as they do for an untracked run.
C38_StartedManualRunTracked ==
    [][(res.op = "StartManualRun" /\ res.err = "")
          => /\ res.run \in {r.ID : r \in CurrentlyRunning(res.task)}
             /\ \A when \in Whens, state \in Statuses :
                   UpdateRunState(res.task, res.run, when, state) => ~panicked'
             /\ \A when \in Whens :
                   AddRunLog(res.task, res.run, when, "log") => ~panicked'
             /\ FinishRun(res.task, res.run) => ~panicked']_vars

\* The IDs of the runs in a queue.
IDsOf(q) == {q[i].ID : i \in 1..Len(q)}

\* C39: a queued manual run is handed out at most once.  Over CreateNextRun
\* and StartManualRun the queue that ManualRuns reports holds distinct IDs and
\* gains none; a run that either call returns was in the queue before the
\* call, is not in it after, and has not been served into flight or finished
\* before.
C39_ManualRunHandedOutOnce ==
    [][res'.op \in {"CreateNextRun", "StartManualRun"} =>
         LET before == IDsOf(ManualRuns(TheTask))
             after == IDsOf(ManualRuns(TheTask)')
             manual == res'.op = "CreateNextRun" /\ res'.path = "manual"
             taken == res'.op = "StartManualRun" /\ res'.err = ""
             r == IF manual THEN res'.Created.RunID ELSE res'.run
         IN  /\ after \subseteq before
             /\ Cardinality(after) = Len(ManualRuns(TheTask)')
             /\ (manual \/ taken)
                   => /\ r \in before /\ r \notin after
                      /\ after = before \ {r}
                      /\ r \notin DOMAIN runs[TheTask]
                      /\ r \notin DOMAIN finishedRuns]_vars

\* Of the runs 1 and 2, CreateNextRun has served run 1, which is in flight,
\* and StartManualRun has now returned run 2; the queue is empty.
C39_Witness ==
    /\ res.op = "StartManualRun" /\ res.err = "" /\ res.run = 2
    /\ manualRuns = <<>>
    /\ ManualInFlight(TheTask) = {1}

====
